---- MODULE Spec2Model ----
(***************************************************************************)
(* Model of the Telegram news bot (admin_bot.py): the admin command loop,  *)
(* the news-fetch loop and the event-alert loop, all working on one shared *)
(* database session, plus the calendar alert time windows.                 *)
(***************************************************************************)
EXTENDS Integers, Sequences, FiniteSets, TLC

(***************************************************************************)
(* Bounds of the model.                                                    *)
(***************************************************************************)
\* number of external-call failures (HTTP, database) the environment injects
MaxFailures == 1
\* number of state-changing admin updates the environment delivers
MaxAdminOps == 1
\* number of sleeps of the alert loop before the modelled clock ends
MaxChecks == 2
\* number of hourly sleeps of the alert loop followed through the day before an event
MaxDayChecks == 24
\* failures and admin updates injected while the progress of the loops is checked
MaxLoopFailures == 1
MaxLoopOps == 1
\* failures injected while the delays after failed iterations are checked
MaxRetryFailures == 2
\* number of sleeps of the alert loop followed through the hours before an event
MaxHourChecks == 3

(***************************************************************************)
(* Time: seconds since midnight of day 0 (datetime at second resolution).  *)
(***************************************************************************)
MinuteSecs == 60
HourSecs == 60 * MinuteSecs
DaySecs == 24 * HourSecs

\* datetime.replace(hour=h, minute=m): seconds (and microseconds) are kept
ReplaceHourMinute(t, h, m) == (t - (t % DaySecs)) + h * HourSecs + m * MinuteSecs + (t % MinuteSecs)

\* datetime.strptime(date_str, "%Y-%m-%d"): the date at 00:00:00
ParseDate(day) == day * DaySecs

HourOf(t) == (t % DaySecs) \div HourSecs
MinuteOf(t) == (t % HourSecs) \div MinuteSecs
DayOf(t) == t \div DaySecs

(***************************************************************************)
(* Program constants.                                                      *)
(***************************************************************************)
AdminErrorSleep == 5
NewsErrorSleep == 60
AlertErrorSleep == 300
AlertCheckSleep == 3600
SourceSleep == 2
DefaultCycleInterval == 300
OldEventDays == 7

CHANNEL_ID == "@channel"
None == 0

Loops == {"admin", "news", "alert"}

VARIABLES
    now,        \* datetime.utcnow(), in seconds
    db,         \* the committed rows of the database
    sess,       \* the rows as the shared Session sees them (db plus pending changes)
    config,     \* ConfigManager._cache, the dict every loop reads
    pc,         \* position of each of the three loops
    slept,      \* per loop: the argument of its last time.sleep after a failed iteration
    fails,      \* per loop: failed iterations in a row
    failed,     \* per loop: an external call failed in the current iteration
    alertLocal, \* locals of the running alert check: send_list, now, checks done
    alerted,    \* <<event id, type>> pairs for which send_event_alert returned True
    alertedTwice, \* the pairs for which it did so more than once
    alertOut,   \* the send list and the sendMessage requests of the last send_event_alert
    posted,     \* <<source key, news id>> pairs NewsPostman has posted
    postedTwice, \* the pairs it has posted more than once
    lastPost,   \* the last news post and what held when it was made: the matching
                \* schedule rows, the posts since the clock last moved, the send
                \* list used and the destinations as stored
    newsLocal,  \* locals of the running fetch cycle: position, dict size, send_list,
                \* and what the last _action did with which id
    awaiting,   \* AdminBot.awaiting_input: per user, the input the bot waits for
    sender,     \* from.id of the update handle_update handled last
    article,    \* the data dict process_data handled last and the steps it took
    menu,       \* callback data of the buttons of the schedule keyboard rendered last
    failsLeft,  \* failures the environment may still inject
    opsLeft,    \* admin updates the environment may still deliver
    checksLeft  \* sleeps of the alert loop left before the modelled clock ends

vars == <<now, db, sess, config, pc, slept, fails, failed, alertLocal, alerted,
          alertedTwice, alertOut, posted, postedTwice, lastPost, newsLocal, awaiting,
          sender, article, menu, failsLeft, opsLeft, checksLeft>>

(***************************************************************************)
(* The database session shared by the three loops (main, line 3020).       *)
(***************************************************************************)
\* Session.commit(): every pending change of the session becomes durable
Commit(s) == s

\* Session.rollback(), also what a failed commit leaves: pending changes are dropped
Rollback(d) == d

(***************************************************************************)
(* Destinations.                                                           *)
(***************************************************************************)
RECURSIVE GroupsById(_)
GroupsById(G) ==
    IF G = {} THEN <<>>
    ELSE LET g == CHOOSE x \in G : \A y \in G : x.id <= y.id
         IN <<g>> \o GroupsById(G \ {g})

RECURSIVE AppendNewDests(_, _)
AppendNewDests(list, gs) ==
    IF gs = <<>> THEN list
    ELSE LET g == Head(gs)
             dup == \E i \in 1..Len(list) : list[i].chat_id = g.chat_id
         IN AppendNewDests(IF dup THEN list
                           ELSE Append(list, [chat_id |-> g.chat_id, topic_id |-> g.topic_id]),
                           Tail(gs))

\* get_send_list: the primary channel, then every enabled group not yet listed;
\* a failing group query is swallowed and leaves the primary channel alone
get_send_list(groups, queryOk) ==
    LET primary == <<[chat_id |-> CHANNEL_ID, topic_id |-> None]>>
    IN IF queryOk
       THEN AppendNewDests(primary, GroupsById({g \in groups : g.enabled}))
       ELSE primary

RECURSIVE AppendNewIds(_, _)
AppendNewIds(list, gs) ==
    IF gs = <<>> THEN list
    ELSE LET g == Head(gs)
             dup == \E i \in 1..Len(list) : list[i] = g.chat_id
         IN AppendNewIds(IF dup THEN list ELSE Append(list, g.chat_id), Tail(gs))

\* get_send_list_simple: the same destinations as bare chat ids
get_send_list_simple(groups, queryOk) ==
    IF queryOk
    THEN AppendNewIds(<<CHANNEL_ID>>, GroupsById({g \in groups : g.enabled}))
    ELSE <<CHANNEL_ID>>

\* a Python value handed to the Telegram API as chat_id: a string, or a whole dict
PyStr(s) == [tag |-> "str", chat_id |-> s, topic_id |-> None]
PyDict(d) == [tag |-> "dict", chat_id |-> d.chat_id, topic_id |-> d.topic_id]

\* TelegramAPI.send_message(chat_id, text): the data of the sendMessage request
send_message(chat_id) == [chat_id |-> chat_id, message_thread_id |-> None]

\* send_event_alert: one api.send_message(target_id, msg) per element of the list
send_event_alert(channel_id) ==
    [i \in 1..Len(channel_id) |-> send_message(PyDict(channel_id[i]))]

(***************************************************************************)
(* Article ids.                                                            *)
(***************************************************************************)
LinkA == "https://www.coindesk.com/markets/639890"
LinkB == "https://www.coindesk.com/markets/702235"
LinkC == "https://www.coindesk.com/markets/1"
Links == {LinkA, LinkB, LinkC}

\* the links the list pages of the sources show
PageLinks == {LinkA, LinkC}

\* hashlib.md5(link.encode('utf-8')).hexdigest() of the modelled links
Md5Hex(link) ==
    CASE link = LinkA -> <<"b","5","b","1","4","4","6","4","9","1","0","2","c","6","9","2",
                           "8","6","4","c","3","0","c","a","4","e","a","d","a","5","2","9">>
      [] link = LinkB -> <<"b","5","b","1","4","4","6","4","9","1","3","a","a","e","9","5",
                           "9","0","e","d","5","5","0","3","d","2","d","3","9","3","7","b">>
      [] link = LinkC -> <<"c","7","1","6","c","c","7","2","5","6","e","8","9","9","b","0",
                           "4","0","4","1","0","7","4","2","6","6","8","d","e","5","7","6">>

IdLen == 10

\* safe_id_policy(link): the first ten hex digits of the MD5 of the link
safe_id_policy(link) == SubSeq(Md5Hex(link), 1, IdLen)

\* run_bot.safe_id_policy(link): hashlib.md5(link.encode('utf-8')).hexdigest()[:10]
run_bot_safe_id_policy(link) == SubSeq(Md5Hex(link), 1, 10)

(***************************************************************************)
(* Calendar alerts.                                                        *)
(***************************************************************************)
\* the category filters of the 1-day block of check_and_send_event_alerts
CategoryAllowed(cal, e) ==
    /\ ~(e.category = "conference" /\ ~cal.alert_conferences)
    /\ ~(e.category = "speech" /\ ~cal.alert_speeches)
    /\ ~(e.category = "launch" /\ ~cal.alert_launches)

\* the query of the 1-day block: events of tomorrow not yet alerted
Query1Day(events, t) ==
    LET tomorrow == t + DaySecs
    IN {e \in events : /\ e.date_event >= ReplaceHourMinute(tomorrow, 0, 0)
                       /\ e.date_event <= ReplaceHourMinute(tomorrow, 23, 59)
                       /\ e.alert_1day_sent = FALSE}

\* the query of the 1-hour block: events of the coming hour not yet alerted
Query1Hour(events, t) ==
    LET one_hour == t + HourSecs
    IN {e \in events : /\ e.date_event >= t
                       /\ e.date_event <= one_hour
                       /\ e.alert_1hour_sent = FALSE}

\* event.alert_1day_sent = True for the events of ids
Mark1Day(events, ids) ==
    {IF e.id \in ids THEN [e EXCEPT !.alert_1day_sent = TRUE] ELSE e : e \in events}

\* event.alert_1hour_sent = True for the events of ids
Mark1Hour(events, ids) ==
    {IF e.id \in ids THEN [e EXCEPT !.alert_1hour_sent = TRUE] ELSE e : e \in events}

\* the bookkeeping of the alerts sent (not program state)
LogAlerts(ids, type) ==
    LET new == {<<i, type>> : i \in ids}
    IN /\ alerted' = alerted \cup new
       /\ alertedTwice' = alertedTwice \cup (alerted \cap new)

(***************************************************************************)
(* Initial state: after main() has created the session and loaded the      *)
(* predefined events; the tables hold what earlier runs left in them.      *)
(***************************************************************************)
\* CRYPTO_EVENTS_2026, one entry, dated on day 1 of the modelled calendar
PredefinedEvents == {[title |-> "ETHDenver 2026", day |-> 1, category |-> "conference"]}

NewEvent(id, title, date, category, source) ==
    [id |-> id, title |-> title, date_event |-> date, category |-> category,
     source |-> source, alert_1day_sent |-> FALSE, alert_1hour_sent |-> FALSE]

\* a scraped event an earlier run stored with the default date utcnow() + 30 days
ScrapedEvent == NewEvent(2, "Scraped", DaySecs + 12 * HourSecs + 45, "launch", "coinmarketcal")

InitialEvents ==
    {NewEvent(1, "ETHDenver 2026", ParseDate(1), "conference", "manual"), ScrapedEvent}

\* a group row stored by an earlier run
InitialGroups == {[id |-> 1, chat_id |-> "-1001", topic_id |-> None, enabled |-> TRUE]}

DEFAULT_CONFIG ==
    [sources_enabled |-> <<[key |-> "coindesk", enabled |-> TRUE]>>,
     format |-> [translate |-> TRUE, summarize |-> FALSE, filter_relevance |-> FALSE,
                 add_emoji |-> FALSE, min_relevance_score |-> 5, style |-> "complete"],
     themes |-> [news |-> TRUE, analysis |-> TRUE, onchain |-> FALSE, whale |-> FALSE,
                 liquidation |-> FALSE, exchange |-> FALSE],
     calendar |-> [alerts_enabled |-> TRUE, alert_1day |-> TRUE, alert_1hour |-> TRUE,
                   alert_conferences |-> TRUE, alert_speeches |-> TRUE,
                   alert_launches |-> TRUE]]

StartTimes == {22 * HourSecs + 30}

NoPost == [made |-> FALSE]

\* a schedule stored by an earlier run: "09:00 news 5"
InitialSchedules ==
    {[id |-> 1, hour |-> 9, minute |-> 0, theme |-> "news", max_posts |-> 5, enabled |-> TRUE]}

Tables(events) ==
    [events |-> events, groups |-> InitialGroups, schedules |-> InitialSchedules,
     seen |-> {}, analytics |-> {}]

\* GROQ_API_KEY is set in the environment
GROQ_API_KEY == TRUE

\* ADMIN_ID of the environment, and another Telegram user
ADMIN_ID == "1001"

Stranger == "2002"

\* process_data has handled no article yet
NoArticle ==
    [link |-> "", theme |-> "", paragraphs |-> <<>>, returned |-> "", steps |-> <<>>,
     score |-> 0]

\* the state main() starts the loops in: stored config cfg, users that can reach the bot
InitFor(users, cfg, t, tables, checks, failures, ops) ==
    /\ now = t
    /\ db = tables
    /\ sess = db
    /\ config = cfg
    /\ pc = [admin |-> "top", news |-> "top", alert |-> "start"]
    /\ slept = [l \in Loops |-> 0]
    /\ fails = [l \in Loops |-> 0]
    /\ failed = [l \in Loops |-> FALSE]
    /\ alertLocal = [send_list |-> <<>>, now |-> t]
    /\ alerted = {}
    /\ alertedTwice = {}
    /\ alertOut = [list |-> <<>>, reqs |-> <<>>]
    /\ posted = {}
    /\ postedTwice = {}
    /\ lastPost = NoPost
    /\ newsLocal = [i |-> 1, used |-> 0, key |-> "", send_list |-> <<>>, last |-> "",
                    lastId |-> <<>>]
    /\ awaiting = [u \in users |-> "none"]
    /\ sender = ADMIN_ID
    /\ article = NoArticle
    /\ menu = {}
    /\ failsLeft = failures
    /\ opsLeft = ops
    /\ checksLeft = checks

\* the default configuration, with the admin as the only user
InitWith(t, tables, checks, failures, ops) ==
    InitFor({ADMIN_ID}, DEFAULT_CONFIG, t, tables, checks, failures, ops)

Init ==
    \E t \in StartTimes : InitWith(t, Tables(InitialEvents), MaxChecks, MaxFailures, MaxAdminOps)

(***************************************************************************)
(* Failure injection and loop bookkeeping.                                 *)
(***************************************************************************)
\* outcome o of the external calls of a step, one of outs: anything but "ok" is a
\* failure of the call it names and uses up one of the failures left
Outcome(o, outs) ==
    /\ o \in outs
    /\ o # "ok" => failsLeft > 0
    /\ failsLeft' = IF o = "ok" THEN failsLeft ELSE failsLeft - 1

\* db_session.commit(), and the rollback that follows it when it fails
CommitOrRollback(s, ok) ==
    /\ sess' = IF ok THEN Commit(s) ELSE Rollback(db)
    /\ db' = IF ok THEN Commit(s) ELSE db

\* loop l moves to p; bad says an external call failed in this step
Step(l, p, bad) ==
    /\ pc' = [pc EXCEPT ![l] = p]
    /\ failed' = [failed EXCEPT ![l] = failed[l] \/ bad]

\* loop l starts its next iteration: after a failed one dur was slept
Restart(l, wasFailure, dur) ==
    /\ pc' = [pc EXCEPT ![l] = "top"]
    /\ failed' = [failed EXCEPT ![l] = FALSE]
    /\ fails' = [fails EXCEPT ![l] = IF wasFailure THEN fails[l] + 1 ELSE 0]
    /\ slept' = IF wasFailure THEN [slept EXCEPT ![l] = dur] ELSE slept

(***************************************************************************)
(* fetch_and_save_events.                                                  *)
(***************************************************************************)
NextId(rows) == IF rows = {} THEN 1 ELSE 1 + (CHOOSE m \in {r.id : r \in rows} : \A r \in rows : r.id <= m)

RECURSIVE AddPredefined(_, _)
AddPredefined(events, todo) ==
    IF todo = {} THEN events
    ELSE LET p == CHOOSE x \in todo : TRUE
             existing == \E e \in events : e.title = p.title /\ e.date_event = ParseDate(p.day)
         IN AddPredefined(IF existing THEN events
                          ELSE events \cup {NewEvent(NextId(events), p.title, ParseDate(p.day),
                                                     p.category, "manual")},
                          todo \ {p})

\* fetch_and_save_events(db_session): predefined events not yet stored (same title
\* and date) are added, then the session is committed, or rolled back on failure
fetch_and_save_events(ok) ==
    CommitOrRollback([sess EXCEPT !.events = AddPredefined(@, PredefinedEvents)], ok)

(***************************************************************************)
(* The event-alert loop: run_event_alerts.                                 *)
(***************************************************************************)
\* thread start: fetch_and_save_events(db_session) before the loop
AlertStart ==
    /\ pc.alert = "start"
    /\ \E o \in {"ok", "commit"} :
        /\ Outcome(o, {"ok", "commit"})
        /\ fetch_and_save_events(o = "ok")
    /\ pc' = [pc EXCEPT !.alert = "top"]
    /\ UNCHANGED <<now, config, slept, fails, failed, alertLocal, alerted, alertedTwice,
                   alertOut, posted, postedTwice, lastPost, newsLocal, awaiting, sender, menu, article, opsLeft,
                   checksLeft>>

\* a check that does not look at alerts_enabled
AlertBeginAlways ==
    /\ pc.alert = "top"
    /\ \E o \in {"ok", "query"} :
        /\ Outcome(o, {"ok", "query"})
        /\ alertLocal' = [send_list |-> get_send_list(sess.groups, o = "ok"), now |-> now]
        /\ Step("alert", "day1", o # "ok")
    /\ UNCHANGED <<now, db, sess, config, slept, fails, alerted, alertedTwice, alertOut,
                   posted, postedTwice, lastPost, newsLocal, awaiting, sender, menu, article, opsLeft, checksLeft>>

\* get_config, get_send_list and the head of check_and_send_event_alerts
AlertBegin ==
    /\ pc.alert = "top"
    /\ \E o \in {"ok", "query"} :
        /\ Outcome(o, {"ok", "query"})
        /\ alertLocal' = [send_list |-> get_send_list(sess.groups, o = "ok"), now |-> now]
        /\ Step("alert", IF config.calendar.alerts_enabled THEN "day1" ELSE "sleep", o # "ok")
    /\ UNCHANGED <<now, db, sess, config, slept, fails, alerted, alertedTwice, alertOut,
                   posted, postedTwice, lastPost, newsLocal, awaiting, sender, menu, article, opsLeft, checksLeft>>

\* the 1-day block: query, category filters, send_event_alert, flag
AlertDay1 ==
    /\ pc.alert = "day1"
    /\ IF ~config.calendar.alert_1day
       THEN /\ Step("alert", "hour1", FALSE)
            /\ UNCHANGED <<sess, alerted, alertedTwice, alertOut, failsLeft>>
       ELSE \E o \in {"ok", "query", "send"} :
            LET events == {e \in Query1Day(sess.events, alertLocal.now) :
                                CategoryAllowed(config.calendar, e)}
                ids == IF o = "query" THEN {} ELSE {e.id : e \in events}
            IN /\ Outcome(o, {"ok", "query", "send"})
               /\ o = "send" => ids # {}
               /\ sess' = [sess EXCEPT !.events = Mark1Day(@, ids)]
               /\ LogAlerts(ids, "1day")
               /\ alertOut' = IF ids = {} THEN alertOut
                              ELSE [list |-> alertLocal.send_list,
                                    reqs |-> send_event_alert(alertLocal.send_list)]
               /\ Step("alert", IF o = "query" THEN "except" ELSE "hour1", o # "ok")
    /\ UNCHANGED <<now, db, config, slept, fails, alertLocal, posted, postedTwice, lastPost,
                   newsLocal, awaiting, sender, menu, article, opsLeft, checksLeft>>

\* the 1-hour block: query, send_event_alert, flag (no category filter)
AlertHour1 ==
    /\ pc.alert = "hour1"
    /\ IF ~config.calendar.alert_1hour
       THEN /\ Step("alert", "commit", FALSE)
            /\ UNCHANGED <<sess, alerted, alertedTwice, alertOut, failsLeft>>
       ELSE \E o \in {"ok", "query", "send"} :
            LET events == Query1Hour(sess.events, alertLocal.now)
                ids == IF o = "query" THEN {} ELSE {e.id : e \in events}
            IN /\ Outcome(o, {"ok", "query", "send"})
               /\ o = "send" => ids # {}
               /\ sess' = [sess EXCEPT !.events = Mark1Hour(@, ids)]
               /\ LogAlerts(ids, "1hour")
               /\ alertOut' = IF ids = {} THEN alertOut
                              ELSE [list |-> alertLocal.send_list,
                                    reqs |-> send_event_alert(alertLocal.send_list)]
               /\ Step("alert", IF o = "query" THEN "except" ELSE "commit", o # "ok")
    /\ UNCHANGED <<now, db, config, slept, fails, alertLocal, posted, postedTwice, lastPost,
                   newsLocal, awaiting, sender, menu, article, opsLeft, checksLeft>>

\* the commit that ends check_and_send_event_alerts, rolled back when it fails
AlertCommit ==
    /\ pc.alert = "commit"
    /\ \E o \in {"ok", "commit"} :
        /\ Outcome(o, {"ok", "commit"})
        /\ CommitOrRollback(sess, o = "ok")
        /\ Step("alert", "sleep", o # "ok")
    /\ UNCHANGED <<now, config, slept, fails, alertLocal, alerted, alertedTwice, alertOut,
                   posted, postedTwice, lastPost, newsLocal, awaiting, sender, menu, article, opsLeft, checksLeft>>

\* time.sleep(3600), then the next iteration
AlertSleep ==
    /\ pc.alert = "sleep"
    /\ checksLeft > 0
    /\ checksLeft' = checksLeft - 1
    /\ now' = now + AlertCheckSleep
    /\ lastPost' = NoPost
    /\ Restart("alert", FALSE, AlertCheckSleep)
    /\ UNCHANGED <<db, sess, config, alertLocal, alerted, alertedTwice, alertOut, posted,
                   postedTwice, newsLocal, awaiting, sender, menu, article, failsLeft, opsLeft>>

\* an except clause that lets the thread end
AlertExceptStop ==
    /\ pc.alert = "except"
    /\ pc' = [pc EXCEPT !.alert = "stopped"]
    /\ UNCHANGED <<now, db, sess, config, slept, fails, failed, alertLocal, alerted,
                   alertedTwice, alertOut, posted, postedTwice, lastPost, newsLocal,
                   awaiting, sender, menu, article, failsLeft, opsLeft, checksLeft>>

\* except Exception: log, time.sleep(300), then the next iteration
AlertExcept ==
    /\ pc.alert = "except"
    /\ now' = now + AlertErrorSleep
    /\ lastPost' = NoPost
    /\ Restart("alert", TRUE, AlertErrorSleep)
    /\ UNCHANGED <<db, sess, config, alertLocal, alerted, alertedTwice, alertOut, posted,
                   postedTwice, newsLocal, awaiting, sender, menu, article, failsLeft, opsLeft, checksLeft>>

AlertLoop == AlertStart \/ AlertBegin \/ AlertDay1 \/ AlertHour1 \/ AlertCommit
             \/ AlertSleep \/ AlertExcept

(***************************************************************************)
(* The news-fetch loop: run_news_fetcher.                                  *)
(***************************************************************************)
\* SOURCES_CONFIG: the display name of a source key
SourceName(key) == IF key = "coindesk" THEN "CoinDesk" ELSE key

\* tag=f"{name} (PT)" if fmt.get("translate") else name
Tag(key, fmt) == IF fmt.translate THEN <<SourceName(key), " (PT)">> ELSE <<SourceName(key)>>

\* the seen-set keyed by the tag of the postman, which follows the translate switch
TableNameByTag(key, tag) == tag

\* np._table_name = source_key: the seen-set of a source is keyed by its key alone
TableName(key, tag) == key

\* classify_news_theme: "news" without a key, else what the model answers
ClassifiedThemes == IF GROQ_API_KEY THEN {"news", "analysis"} ELSE {"news"}

\* the enabled ScheduledPost rows whose hour:minute and theme match a post made at t
MatchingSlots(schedules, t, theme) ==
    {s \in schedules : s.enabled /\ s.hour = HourOf(t) /\ s.minute = MinuteOf(t)
                        /\ s.theme = theme}

\* NewsPostman sending one message to each chat id of its sendList
NewsPostmanSend(send_list) ==
    [i \in 1..Len(send_list) |-> send_message(PyStr(send_list[i]))]

\* the bookkeeping of a post made (not program state)
LogPost(key, table, link, theme, send_list) ==
    LET id == safe_id_policy(link)
    IN /\ posted' = posted \cup {<<key, id>>}
       /\ postedTwice' = postedTwice \cup (posted \cap {<<key, id>>})
       /\ lastPost' = [made |-> TRUE, theme |-> theme,
                       inSlot |-> IF lastPost.made THEN lastPost.inSlot + 1 ELSE 1,
                       slots |-> MatchingSlots(sess.schedules, now, theme),
                       send_list |-> send_list,
                       dests |-> get_send_list(sess.groups, TRUE)]

\* get_config, get_send_list_simple, and the start of the iteration over sources_enabled
NewsBegin ==
    /\ pc.news = "top"
    /\ \E o \in {"ok", "query"} :
        /\ Outcome(o, {"ok", "query"})
        /\ newsLocal' = [i |-> 1, used |-> Len(config.sources_enabled), key |-> "",
                         send_list |-> get_send_list_simple(sess.groups, o = "ok"),
                         last |-> "", lastId |-> <<>>]
        /\ Step("news", "iter", o # "ok")
    /\ UNCHANGED <<now, db, sess, config, slept, fails, alertLocal, alerted, alertedTwice,
                   alertOut, posted, postedTwice, lastPost, awaiting, sender, menu, article, opsLeft, checksLeft>>

\* an iteration that takes every source of the dict, enabled or not
NewsIterAll ==
    /\ pc.news = "iter"
    /\ IF Len(config.sources_enabled) # newsLocal.used
       THEN Step("news", "except", FALSE) /\ UNCHANGED <<newsLocal, fails, slept>>
       ELSE IF newsLocal.i > Len(config.sources_enabled)
       THEN /\ Restart("news", FALSE, DefaultCycleInterval)
            /\ newsLocal' = [newsLocal EXCEPT !.last = "", !.lastId = <<>>]
       ELSE /\ newsLocal' = [newsLocal EXCEPT !.key = config.sources_enabled[newsLocal.i].key]
            /\ Step("news", "fetch", FALSE)
            /\ UNCHANGED <<fails, slept>>
    /\ UNCHANGED <<now, db, sess, config, alertLocal, alerted, alertedTwice, alertOut,
                   posted, postedTwice, lastPost, awaiting, sender, menu, article, failsLeft,
                   opsLeft, checksLeft>>

\* the for statement: RuntimeError when the dict changed size during the iteration,
\* the end of the cycle (sleep cycle_interval), a disabled source, or an enabled one
NewsIter ==
    /\ pc.news = "iter"
    /\ IF Len(config.sources_enabled) # newsLocal.used
       THEN Step("news", "except", FALSE) /\ UNCHANGED <<newsLocal, fails, slept>>
       ELSE IF newsLocal.i > Len(config.sources_enabled)
       THEN /\ Restart("news", FALSE, DefaultCycleInterval)
            /\ newsLocal' = [newsLocal EXCEPT !.last = "", !.lastId = <<>>]
       ELSE IF ~config.sources_enabled[newsLocal.i].enabled
       THEN /\ newsLocal' = [newsLocal EXCEPT !.i = @ + 1]
            /\ UNCHANGED <<pc, failed, fails, slept>>
       ELSE /\ newsLocal' = [newsLocal EXCEPT !.key = config.sources_enabled[newsLocal.i].key]
            /\ Step("news", "fetch", FALSE)
            /\ UNCHANGED <<fails, slept>>
    /\ UNCHANGED <<now, db, sess, config, alertLocal, alerted, alertedTwice, alertOut,
                   posted, postedTwice, lastPost, awaiting, sender, menu, article, failsLeft, opsLeft, checksLeft>>

\* process_data, the hook run_news_fetcher installs: classification, then the
\* PostAnalytics row and its commit, rolled back when it fails
process_data(s, key, link, theme, ok) ==
    IF ok THEN Commit([s EXCEPT !.analytics = @ \cup {<<SourceName(key), link>>}])
    ELSE Rollback(db)

\* NewsPostman._action for one source: one link of the list page; a link whose id
\* is in the table of the source is skipped, a new one is post-processed, sent to
\* the sendList and recorded; then time.sleep(2). A failing page fetch ends the
\* source, a failing LLM or translation call leaves the defaults (theme "news"),
\* a failing send leaves the item unrecorded
NewsFetch ==
    /\ pc.news = "fetch"
    /\ LET key == newsLocal.key
           table == TableName(key, Tag(key, config.format))
       IN \E o \in {"ok", "page", "llm", "analytics", "send"}, link \in PageLinks,
             theme \in ClassifiedThemes :
          LET id == safe_id_policy(link)
              new == o # "page" /\ <<table, id>> \notin sess.seen
              s1 == process_data(sess, key, link, theme, o # "analytics")
              s2 == [s1 EXCEPT !.seen = @ \cup {<<table, id>>}]
          IN /\ Outcome(o, {"ok", "page", "llm", "analytics", "send"})
             /\ o \in {"llm", "analytics", "send"} => new
             /\ o = "llm" => theme = "news"
             /\ IF ~new
                THEN UNCHANGED <<db, sess, posted, postedTwice, lastPost>>
                ELSE IF o = "send"
                THEN /\ sess' = s1
                     /\ db' = s1
                     /\ UNCHANGED <<posted, postedTwice, lastPost>>
                ELSE /\ sess' = Commit(s2)
                     /\ db' = Commit(s2)
                     /\ LogPost(key, table, link, theme, newsLocal.send_list)
             /\ Step("news", "iter", o # "ok")
             /\ newsLocal' = [newsLocal EXCEPT
                    !.i = @ + 1, !.key = "", !.lastId = id,
                    !.last = IF o \in {"page", "send"} THEN "failed"
                             ELSE IF new THEN "posted" ELSE "skipped"]
    /\ UNCHANGED <<now, config, slept, fails, alertLocal, alerted, alertedTwice, alertOut,
                   awaiting, sender, menu, article, opsLeft, checksLeft>>

\* except Exception: log, time.sleep(60), then the next cycle
NewsExcept ==
    /\ pc.news = "except"
    /\ Restart("news", TRUE, NewsErrorSleep)
    /\ UNCHANGED <<now, db, sess, config, alertLocal, alerted, alertedTwice, alertOut,
                   posted, postedTwice, lastPost, newsLocal, awaiting, sender, menu, article, failsLeft, opsLeft,
                   checksLeft>>

NewsLoop == NewsBegin \/ NewsIter \/ NewsFetch \/ NewsExcept

(***************************************************************************)
(* process_data step by step, for every format an admin can store.         *)
(***************************************************************************)
\* a text of n characters c
Text(n, c) == [i \in 1..n |-> c]

\* text[:n]
Prefix(text, n) == SubSeq(text, 1, IF Len(text) < n THEN Len(text) ELSE n)

Ellipsis == <<".", ".", ".">>

\* the reply of call_groq_ai that is None or does not begin with a number
NoAnswer == -1

\* filter_news_relevance: the number the model answers, clamped to 1..10, and 5
\* when there is no usable answer
filter_news_relevance(answer) ==
    IF answer = NoAnswer THEN 5
    ELSE IF answer < 1 THEN 1
    ELSE IF answer > 10 THEN 10
    ELSE answer

\* the comparison with the minimum itself filtered out too
filter_out_at_min(score, min_score) == score <= min_score

\* if score < min_score: return None
filter_out(score, min_score) == score < min_score

valid_themes == {"news", "analysis", "onchain", "whale", "liquidation", "exchange",
                 "regulation", "defi", "nft"}

\* classify_news_theme: the answer when it is a valid theme, else "news"
classify_news_theme(answer) == IF answer \in valid_themes THEN answer ELSE "news"

\* translate_text: the translation (here as long as the text), or the text
\* itself when the translator fails
translate_text(text, ok) == IF ok THEN Text(Len(text), "p") ELSE text

SummarizeMaxLength == 200

\* summarize_with_ai: the summary Groq answers, or the first max_length
\* characters and "..." when it answers nothing
summarize_with_ai(text, ok) ==
    IF ok THEN Text(120, "s")
    ELSE IF Len(text) > SummarizeMaxLength THEN Prefix(text, SummarizeMaxLength) \o Ellipsis
    ELSE text

StyleSummaryLength == 300

\* the style step: title_only empties the paragraphs, summary cuts them
StyledParagraphs(style, paragraphs) ==
    IF style = "title_only" THEN <<>>
    ELSE IF style = "summary" /\ Len(paragraphs) > StyleSummaryLength
    THEN Prefix(paragraphs, StyleSummaryLength) \o Ellipsis
    ELSE paragraphs

\* the steps of s that are taken
Taken(s) == SelectSeq(s, LAMBDA x : x # "")

\* process_data on the paragraphs of an article under format fmt: llm tells
\* whether Groq and the translator answer, scoreAnswer and themeAnswer are
\* Groq's replies; the result holds what is returned and the steps in the
\* order of the code
PostProcessed(fmt, paragraphs, llm, scoreAnswer, themeAnswer) ==
    LET filtering == fmt.filter_relevance /\ GROQ_API_KEY
        score == IF filtering
                 THEN filter_news_relevance(IF llm THEN scoreAnswer ELSE NoAnswer)
                 ELSE 0
        theme == IF GROQ_API_KEY /\ llm THEN classify_news_theme(themeAnswer) ELSE "news"
        p1 == IF fmt.translate /\ paragraphs # <<>>
              THEN translate_text(paragraphs, llm) ELSE paragraphs
        summarizing == fmt.summarize /\ p1 # <<>>
        p2 == IF summarizing THEN summarize_with_ai(p1, llm) ELSE p1
        p3 == StyledParagraphs(fmt.style, p2)
    IN IF filtering /\ filter_out(score, fmt.min_relevance_score)
       THEN [returned |-> "None", score |-> score, theme |-> "", paragraphs |-> paragraphs,
             steps |-> <<"relevance">>]
       ELSE [returned |-> "data", score |-> score, theme |-> theme, paragraphs |-> p3,
             steps |-> Taken(<<IF filtering THEN "relevance" ELSE "",
                               IF GROQ_API_KEY THEN "classify" ELSE "",
                               IF fmt.translate THEN "translate" ELSE "",
                               IF summarizing THEN "summarize" ELSE "",
                               IF fmt.add_emoji /\ GROQ_API_KEY THEN "emoji" ELSE "",
                               "style", "metrics">>)]

ContentLengths == {0, StyleSummaryLength, StyleSummaryLength + 1}

ScoreAnswers == {NoAnswer, 0, 4, 5, 11}

ThemeAnswers == {"analysis", "onchain", "bitcoin"}

\* NewsPostman._action up to the hook: the existence check of the id, then
\* process_data with its PostAnalytics row; a None from the hook ends the item
NewsProcessFrom(pages) ==
    /\ pc.news = "fetch"
    /\ LET key == newsLocal.key
           table == TableName(key, Tag(key, config.format))
       IN \E o \in {"ok", "llm"}, link \in pages, n \in ContentLengths,
             scoreAnswer \in ScoreAnswers, themeAnswer \in ThemeAnswers :
          LET id == safe_id_policy(link)
              new == <<table, id>> \notin sess.seen
              d == PostProcessed(config.format, Text(n, "e"), o = "ok", scoreAnswer,
                                 themeAnswer)
              made == [link |-> link, theme |-> d.theme, paragraphs |-> d.paragraphs,
                       returned |-> d.returned, steps |-> <<"dedup">> \o d.steps,
                       score |-> d.score]
          IN /\ Outcome(o, {"ok", "llm"})
             /\ o = "llm" => (new /\ scoreAnswer = NoAnswer /\ themeAnswer = "bitcoin")
             /\ IF ~new
                THEN /\ article' = [NoArticle EXCEPT !.link = link, !.steps = <<"dedup">>]
                     /\ UNCHANGED <<db, sess>>
                ELSE /\ article' = made
                     /\ IF d.returned = "None" THEN UNCHANGED <<db, sess>>
                        ELSE /\ sess' = process_data(sess, key, link, d.theme, TRUE)
                             /\ db' = sess'
             /\ IF new /\ d.returned = "data"
                THEN /\ Step("news", "post", o # "ok")
                     /\ newsLocal' = [newsLocal EXCEPT !.lastId = id]
                ELSE /\ Step("news", "iter", o # "ok")
                     /\ newsLocal' = [newsLocal EXCEPT !.i = @ + 1, !.key = "",
                                         !.lastId = id, !.last = "skipped"]
    /\ UNCHANGED <<now, config, slept, fails, alertLocal, alerted, alertedTwice, alertOut,
                   posted, postedTwice, lastPost, awaiting, sender, menu, opsLeft, checksLeft>>

\* the item is one of the links the list pages show
NewsProcess == NewsProcessFrom(PageLinks)

\* the item is any link a site can publish
NewsProcessAny == NewsProcessFrom(Links)

\* NewsPostman._action after the hook: the data it returned is sent to the
\* sendList and the id recorded in the table of the source; then time.sleep(2)
NewsPost ==
    /\ pc.news = "post"
    /\ LET key == newsLocal.key
           table == TableName(key, Tag(key, config.format))
           s2 == [sess EXCEPT !.seen = @ \cup {<<table, newsLocal.lastId>>}]
       IN /\ sess' = Commit(s2)
          /\ db' = Commit(s2)
          /\ LogPost(key, table, article.link, article.theme, newsLocal.send_list)
    /\ article' = [article EXCEPT !.steps = Append(@, "send")]
    /\ Step("news", "iter", FALSE)
    /\ newsLocal' = [newsLocal EXCEPT !.i = @ + 1, !.key = "", !.last = "posted"]
    /\ UNCHANGED <<now, config, slept, fails, alertLocal, alerted, alertedTwice, alertOut,
                   awaiting, sender, menu, failsLeft, opsLeft, checksLeft>>

(***************************************************************************)
(* The admin loop: AdminBot.run, handle_callback, handle_message.          *)
(***************************************************************************)
loopVars == <<alertLocal, alerted, alertedTwice, alertOut, posted, postedTwice, lastPost,
              newsLocal, article>>

\* one update handled by run(): outcome o of its external calls; the failures in
\* raising leave handle_update by an exception, which run() catches
AdminHandle(o, outs, raising) ==
    /\ pc.admin = "top"
    /\ Outcome(o, outs)
    /\ IF o \in raising
       THEN Step("admin", "except", TRUE) /\ UNCHANGED <<fails, slept>>
       ELSE Restart("admin", FALSE, 0)
    /\ \E u \in DOMAIN awaiting : sender' = u
    /\ UNCHANGED <<now, loopVars, checksLeft>>

\* an update that changes the stored state: one of the updates left
AdminUpdate(o, outs, raising) ==
    /\ opsLeft > 0
    /\ opsLeft' = opsLeft - 1
    /\ AdminHandle(o, outs, raising)

\* get_updates returned no update, or failed and returned []
AdminPoll ==
    /\ pc.admin = "top"
    /\ \E o \in {"ok", "getUpdates"} : Outcome(o, {"ok", "getUpdates"})
    /\ Restart("admin", FALSE, 0)
    /\ UNCHANGED <<now, db, sess, config, loopVars, awaiting, sender, menu, opsLeft, checksLeft>>

\* an except clause whose sleep grows with the failures in a row
AdminExceptBackoff ==
    /\ pc.admin = "except"
    /\ Restart("admin", TRUE, AdminErrorSleep * (fails.admin + 1))
    /\ UNCHANGED <<now, db, sess, config, loopVars, awaiting, sender, menu, failsLeft, opsLeft, checksLeft>>

\* except Exception: log, time.sleep(5), then the next iteration
AdminExcept ==
    /\ pc.admin = "except"
    /\ Restart("admin", TRUE, AdminErrorSleep)
    /\ UNCHANGED <<now, db, sess, config, loopVars, awaiting, sender, menu, failsLeft, opsLeft, checksLeft>>

\* ConfigManager.save_config: the cache is replaced, the row committed, and the
\* session rolled back when the commit fails
save_config(cfg, ok) ==
    /\ config' = cfg
    /\ CommitOrRollback(sess, ok)

CalendarKeys == {"alerts_enabled", "alert_1day", "alert_1hour", "alert_conferences"}

\* callback toggle_cal_<key>
AdminToggleCalendar ==
    \E key \in CalendarKeys, o \in {"ok", "answer", "commit", "edit"} :
        /\ AdminUpdate(o, {"ok", "answer", "commit", "edit"}, {"answer", "edit"})
        /\ IF o = "answer" THEN UNCHANGED <<config, db, sess>>
           ELSE save_config([config EXCEPT !.calendar[key] = ~@], o # "commit")
        /\ UNCHANGED <<awaiting, menu>>

\* callback toggle_format_translate: ConfigManager.toggle("format", "translate")
AdminToggleFormat ==
    \E o \in {"ok", "answer", "commit", "edit"} :
        /\ AdminUpdate(o, {"ok", "answer", "commit", "edit"}, {"answer", "edit"})
        /\ IF o = "answer" THEN UNCHANGED <<config, db, sess>>
           ELSE save_config([config EXCEPT !.format.translate = ~@], o # "commit")
        /\ UNCHANGED <<awaiting, menu>>

SourceIndex(key) ==
    {i \in 1..Len(config.sources_enabled) : config.sources_enabled[i].key = key}

\* callback toggle_source_<key>: ConfigManager.toggle("sources_enabled", key)
AdminToggleSource ==
    \E key \in {"coindesk"}, o \in {"ok", "answer", "commit", "edit"} :
        /\ AdminUpdate(o, {"ok", "answer", "commit", "edit"}, {"answer", "edit"})
        /\ o = "commit" => SourceIndex(key) # {}
        /\ IF o = "answer" \/ SourceIndex(key) = {} THEN UNCHANGED <<config, db, sess>>
           ELSE LET i == CHOOSE j \in SourceIndex(key) : TRUE
                IN save_config([config EXCEPT !.sources_enabled[i].enabled = ~@], o # "commit")
        /\ UNCHANGED <<awaiting, menu>>

\* callback delete_source_<key>: the key is deleted from the cached dict
AdminDeleteSource ==
    \E key \in {"coindesk"}, o \in {"ok", "answer", "commit", "edit"} :
        /\ AdminUpdate(o, {"ok", "answer", "commit", "edit"}, {"answer", "edit"})
        /\ o = "commit" => SourceIndex(key) # {}
        /\ IF o = "answer" \/ SourceIndex(key) = {} THEN UNCHANGED <<config, db, sess>>
           ELSE save_config([config EXCEPT !.sources_enabled =
                                SelectSeq(@, LAMBDA x : x.key # key)], o # "commit")
        /\ UNCHANGED <<awaiting, menu>>

\* self.db.commit() of a handler that does not catch: on failure the exception
\* leaves the handler and the change stays pending in the session
CommitOrRaise(s, ok) ==
    /\ sess' = s
    /\ db' = IF ok THEN Commit(s) ELSE db

TopicIds == {7}

\* callback group_select_topic_<group>_<topic>
AdminGroupSelectTopic ==
    \E gid \in {1}, topic \in TopicIds, o \in {"ok", "answer", "commit", "edit"} :
        /\ AdminUpdate(o, {"ok", "answer", "commit", "edit"}, {"answer", "commit", "edit"})
        /\ IF o = "answer" \/ ~\E g \in sess.groups : g.id = gid
           THEN UNCHANGED <<db, sess>> /\ o \in {"ok", "answer"}
           ELSE CommitOrRaise([sess EXCEPT !.groups =
                    {IF g.id = gid THEN [g EXCEPT !.topic_id = topic] ELSE g : g \in @}],
                    o # "commit")
        /\ UNCHANGED <<config, awaiting, menu>>

\* callback group_remove_topic_<group>
AdminGroupRemoveTopic ==
    \E gid \in {1}, o \in {"ok", "answer", "commit", "edit"} :
        /\ AdminUpdate(o, {"ok", "answer", "commit", "edit"}, {"answer", "commit", "edit"})
        /\ IF o = "answer" \/ ~\E g \in sess.groups : g.id = gid
           THEN UNCHANGED <<db, sess>> /\ o \in {"ok", "answer"}
           ELSE CommitOrRaise([sess EXCEPT !.groups =
                    {IF g.id = gid THEN [g EXCEPT !.topic_id = None] ELSE g : g \in @}],
                    o # "commit")
        /\ UNCHANGED <<config, awaiting, menu>>

\* the attributes AdminBot.__init__ sets on the bot
AdminBotAttributes ==
    {"api", "config_mgr", "db", "running", "news_thread", "awaiting_input", "bot_username"}

\* self.db_session: an attribute the group methods use
HasDbSession == "db_session" \in AdminBotAttributes

\* the ids of the groups the menu has buttons for
GroupIds == {g.id : g \in sess.groups}

\* group.enabled = not group.enabled for the group with this id
GroupsAfterToggle(groups, gid) ==
    {IF g.id = gid THEN [g EXCEPT !.enabled = ~@] ELSE g : g \in groups}

\* callback toggle_group_<gid>: toggle_group looks up self.db_session in its try
\* block and again in its except clause, so without that attribute the
\* AttributeError leaves the handler before anything is changed or rendered
toggle_group(gid) ==
    \E o \in {"ok", "answer"} :
        /\ AdminUpdate(o, {"ok", "answer"}, IF HasDbSession THEN {"answer"} ELSE {"ok", "answer"})
        /\ IF o = "ok" /\ HasDbSession
           THEN CommitOrRollback([sess EXCEPT !.groups = GroupsAfterToggle(@, gid)], TRUE)
           ELSE UNCHANGED <<db, sess>>
        /\ UNCHANGED <<config, awaiting, menu>>

\* callback delete_group_<gid>: delete_group, with the same lookups
delete_group(gid) ==
    \E o \in {"ok", "answer"} :
        /\ AdminUpdate(o, {"ok", "answer"}, IF HasDbSession THEN {"answer"} ELSE {"ok", "answer"})
        /\ IF o = "ok" /\ HasDbSession
           THEN CommitOrRollback([sess EXCEPT !.groups = {g \in @ : g.id # gid}], TRUE)
           ELSE UNCHANGED <<db, sess>>
        /\ UNCHANGED <<config, awaiting, menu>>

AdminGroupToggle == \E gid \in GroupIds : toggle_group(gid)

AdminGroupDelete == \E gid \in GroupIds : delete_group(gid)

\* callback add_group: the next message of the user is taken as a chat to add
AdminGroupAddPrompt ==
    /\ \E o \in {"ok", "answer", "send"} :
        /\ AdminHandle(o, {"ok", "answer", "send"}, {"answer", "send"})
        /\ awaiting[sender'] = "none"
        /\ awaiting' = IF o = "answer" THEN awaiting
                       ELSE [awaiting EXCEPT ![sender'] = "add_group"]
    /\ UNCHANGED <<config, db, sess, menu, opsLeft>>

\* what a user may type: the text and what startswith("@") and int(text) make of it
GroupInputs ==
    {[text |-> "-1001", kind |-> "int"], [text |-> "-1002", kind |-> "int"],
     [text |-> "@canal", kind |-> "username"], [text |-> "canal", kind |-> "other"]}

\* the rows after BotGroup(chat_id, enabled=True) is added, unless the chat is there
GroupsAfterAdd(groups, chat_id) ==
    IF \E g \in groups : g.chat_id = chat_id THEN groups
    ELSE groups \cup {[id |-> NextId(groups), chat_id |-> chat_id, topic_id |-> None,
                       enabled |-> TRUE]}

\* process_add_group on the text of a user awaited for "add_group": a text that is
\* neither @username nor a number is answered and dropped; otherwise the existence
\* check looks up self.db_session, and so does the except clause around it
process_add_group(inp) ==
    \E o \in {"ok", "send"} :
        LET raising == IF inp.kind = "other" \/ HasDbSession THEN {"send"} ELSE {"ok", "send"}
        IN /\ AdminUpdate(o, {"ok", "send"}, raising)
           /\ awaiting[sender'] = "add_group"
           /\ awaiting' = [awaiting EXCEPT ![sender'] = "none"]
           /\ IF inp.kind # "other" /\ HasDbSession
              THEN CommitOrRollback([sess EXCEPT !.groups = GroupsAfterAdd(@, inp.text)], TRUE)
              ELSE UNCHANGED <<db, sess>>
           /\ UNCHANGED <<config, menu>>

AdminGroupAddInput == \E inp \in GroupInputs : process_add_group(inp)

ScheduleHours == {22}
ScheduleThemes == {"news"}
ScheduleQuantities == {1}

\* callback sched_qty_<hour>_<theme>_<qty>: a new ScheduledPost
AdminScheduleAdd ==
    \E hour \in ScheduleHours, theme \in ScheduleThemes, qty \in ScheduleQuantities,
       o \in {"ok", "answer", "commit", "edit"} :
        /\ AdminUpdate(o, {"ok", "answer", "commit", "edit"}, {"answer", "commit", "edit"})
        /\ IF o = "answer" THEN UNCHANGED <<db, sess>>
           ELSE CommitOrRaise([sess EXCEPT !.schedules = @ \cup
                    {[id |-> NextId(@), hour |-> hour, minute |-> 0, theme |-> theme,
                      max_posts |-> qty, enabled |-> TRUE]}], o # "commit")
        /\ UNCHANGED <<config, awaiting, menu>>

\* Callback data is a string, here the sequence of its pieces with every "_" a
\* piece of its own. text.split("_"):
RECURSIVE Split(_)
Split(text) ==
    IF \A i \in 1..Len(text) : text[i] # "_" THEN <<text>>
    ELSE LET k == CHOOSE i \in 1..Len(text) :
                    text[i] = "_" /\ \A j \in 1..(i - 1) : text[j] # "_"
         IN <<SubSeq(text, 1, k - 1)>> \o Split(SubSeq(text, k + 1, Len(text)))

\* text.replace(word, "")
Without(text, word) == SelectSeq(text, LAMBDA x : x # word)

\* the decimal numerals of 0..23
Numerals ==
    <<"0", "1", "2", "3", "4", "5", "6", "7", "8", "9", "10", "11", "12", "13", "14", "15",
      "16", "17", "18", "19", "20", "21", "22", "23">>

\* str(n), and int(text), which raises ValueError unless text is a numeral
Str(n) == Numerals[n + 1]

IsInt(text) == Len(text) = 1 /\ \E n \in 0..23 : Numerals[n + 1] = text[1]

IntOf(text) == CHOOSE n \in 0..23 : Numerals[n + 1] = text[1]

\* the hours, themes and quantities the keyboards are modelled with, out of the
\* 24 hours, 8 themes and 7 quantities of the code
MenuHours == {9, 22}

MenuThemes == {"news", "analysis", "mixed"}

MenuQuantities == {1, 20}

\* one button "sched_hour_<h>" per hour
build_schedule_hours_menu == {[cmd |-> "sched_hour", arg |-> <<Str(h)>>] : h \in MenuHours}

\* one button "sched_theme_<hour>_<theme>" per theme
build_schedule_theme_menu(hour) ==
    {[cmd |-> "sched_theme", arg |-> hour \o <<"_", theme>>] :
        theme \in MenuThemes}

\* one button "sched_qty_<hour>_<theme>_<q>" per quantity
build_schedule_quantity_menu(hour, theme) ==
    {[cmd |-> "sched_qty", arg |-> hour \o <<"_">> \o theme \o <<"_", Str(q)>>] :
        q \in MenuQuantities}

\* callback edit_schedule_<id>: the theme keyboard for f"edit_{sched_id}"
AdminScheduleEdit ==
    /\ \E sched \in sess.schedules, o \in {"ok", "answer", "edit"} :
        /\ AdminHandle(o, {"ok", "answer", "edit"}, {"answer", "edit"})
        /\ menu' = IF o = "ok" THEN build_schedule_theme_menu(<<"edit", "_", Str(sched.id)>>)
                   ELSE menu
    /\ UNCHANGED <<config, db, sess, awaiting, opsLeft>>

\* callback add_schedule: the keyboard of hours
AdminScheduleHours ==
    /\ \E o \in {"ok", "answer", "edit"} :
        /\ AdminHandle(o, {"ok", "answer", "edit"}, {"answer", "edit"})
        /\ menu' = IF o = "ok" THEN build_schedule_hours_menu ELSE menu
    /\ UNCHANGED <<config, db, sess, awaiting, opsLeft>>

\* callback sched_hour_<hour>: the theme keyboard for the hour
AdminScheduleHour ==
    /\ \E b \in menu, o \in {"ok", "answer", "edit"} :
        /\ b.cmd = "sched_hour"
        /\ AdminHandle(o, {"ok", "answer", "edit"}, {"answer", "edit"})
        /\ menu' = IF o = "ok" THEN build_schedule_theme_menu(b.arg) ELSE menu
    /\ UNCHANGED <<config, db, sess, awaiting, opsLeft>>

\* hour_part.startswith("edit")
IsEdit(hour_part) == hour_part # <<>> /\ hour_part[1] = "edit"

\* callback sched_theme_<hour>_<theme>: parts[0] is the hour or the edited
\* schedule, parts[1] the theme; int() of what is left of parts[0] without
\* "edit" raises ValueError when that is not a number (a press that raises is
\* one of the updates left)
AdminScheduleTheme ==
    /\ \E b \in menu, o \in {"ok", "answer", "edit"} :
        LET parts == Split(b.arg)
            hour_part == parts[1]
            theme == parts[2]
            rest == Without(hour_part, "edit")
            valueError == IsEdit(hour_part) /\ ~IsInt(rest)
        IN /\ b.cmd = "sched_theme"
           /\ IF valueError
              THEN AdminUpdate(o, {"ok", "answer", "edit"}, {"ok", "answer", "edit"})
              ELSE /\ AdminHandle(o, {"ok", "answer", "edit"}, {"answer", "edit"})
                   /\ UNCHANGED opsLeft
           /\ menu' = IF o # "ok" \/ valueError THEN menu
                      ELSE IF IsEdit(hour_part)
                      THEN build_schedule_quantity_menu(<<"edit", Str(IntOf(rest))>>, theme)
                      ELSE build_schedule_quantity_menu(hour_part, theme)
    /\ UNCHANGED <<config, db, sess, awaiting>>

\* the rows after the schedule with this id got the theme and the quantity
SchedulesAfterEdit(schedules, id, theme, qty) ==
    {IF r.id = id THEN [r EXCEPT !.theme = theme, !.max_posts = qty] ELSE r : r \in schedules}

\* callback sched_qty_<hour>_<theme>_<qty>: the edited schedule gets theme and
\* quantity, or a new ScheduledPost is added for the hour; then the schedule menu
AdminScheduleQty ==
    /\ \E b \in menu, o \in {"ok", "answer", "commit", "edit"} :
        LET parts == Split(b.arg)
            hour_part == parts[1]
            theme == parts[2][1]
            rest == Without(hour_part, "edit")
            valueError == ~IsInt(parts[3]) \/ ~IsInt(rest)
            qty == IntOf(parts[3])
        IN /\ b.cmd = "sched_qty"
           /\ AdminUpdate(o, {"ok", "answer", "commit", "edit"},
                          IF valueError THEN {"ok", "answer", "commit", "edit"}
                          ELSE {"answer", "commit", "edit"})
           /\ o = "commit" => ~valueError
           /\ IF o = "answer" \/ valueError THEN UNCHANGED <<db, sess>>
              ELSE IF IsEdit(hour_part)
              THEN CommitOrRaise([sess EXCEPT !.schedules =
                        SchedulesAfterEdit(@, IntOf(rest), theme, qty)], o # "commit")
              ELSE CommitOrRaise([sess EXCEPT !.schedules = @ \cup
                        {[id |-> NextId(@), hour |-> IntOf(rest), minute |-> 0,
                          theme |-> theme, max_posts |-> qty, enabled |-> TRUE]}],
                        o # "commit")
           /\ menu' = IF o = "ok" /\ ~valueError THEN {} ELSE menu
    /\ UNCHANGED <<config, awaiting>>

\* callback toggle_schedule_<id>
AdminScheduleToggle ==
    \E s \in sess.schedules, o \in {"ok", "answer", "commit", "edit"} :
        /\ AdminUpdate(o, {"ok", "answer", "commit", "edit"}, {"answer", "commit", "edit"})
        /\ IF o = "answer" THEN UNCHANGED <<db, sess>>
           ELSE CommitOrRaise([sess EXCEPT !.schedules =
                    (@ \ {s}) \cup {[s EXCEPT !.enabled = ~@]}], o # "commit")
        /\ UNCHANGED <<config, awaiting, menu>>

\* callback delete_schedule_<id>
AdminScheduleDelete ==
    \E s \in sess.schedules, o \in {"ok", "answer", "commit", "edit"} :
        /\ AdminUpdate(o, {"ok", "answer", "commit", "edit"}, {"answer", "commit", "edit"})
        /\ IF o = "answer" THEN UNCHANGED <<db, sess>>
           ELSE CommitOrRaise([sess EXCEPT !.schedules = @ \ {s}], o # "commit")
        /\ UNCHANGED <<config, awaiting, menu>>

\* callback calendar_refresh: fetch_and_save_events(self.db)
AdminCalendarRefresh ==
    \E o \in {"ok", "answer", "commit", "edit"} :
        /\ AdminUpdate(o, {"ok", "answer", "commit", "edit"}, {"answer", "edit"})
        /\ IF o = "answer" THEN UNCHANGED <<db, sess>>
           ELSE fetch_and_save_events(o # "commit")
        /\ UNCHANGED <<config, awaiting, menu>>

AiDays == {2}
AiNewEvents == {[title |-> "AiConf", day |-> 2, category |-> "conference"]}

\* the rows of crypto_events after the three steps of ai_sync_calendar: events
\* older than seven days are deleted, the event the correction names (the first
\* whose title matches) gets the corrected date, and the new events the model
\* proposes are added when their title is new and their date in the future
AiSyncRows(events, today, corr, new) ==
    LET kept == {e \in events : ~(e.date_event < today - OldEventDays * DaySecs)}
        current == {e \in kept : e.date_event >= today}
        match == IF corr = <<>> \/ current = {} \/ ~GROQ_API_KEY THEN {}
                 ELSE {e \in kept : e.title = corr[1]}
        first == {e \in match : \A x \in match : e.id <= x.id}
        fixed == {IF e \in first THEN [e EXCEPT !.date_event = ParseDate(corr[2])] ELSE e :
                    e \in kept}
        add == IF ~GROQ_API_KEY THEN {}
               ELSE {n \in new : /\ ~\E e \in fixed : e.title = n.title
                                  /\ ParseDate(n.day) > today}
    IN fixed \cup {NewEvent(NextId(events), n.title, ParseDate(n.day), n.category,
                            "ai_generated") : n \in add}

\* ai_sync_calendar(db_session), ending with commit, or rollback on failure
ai_sync_calendar(corr, new, ok) ==
    CommitOrRollback([sess EXCEPT !.events = AiSyncRows(@, now, corr, new)], ok)

\* callback calendar_ai_sync
AdminCalendarAiSync ==
    \E o \in {"ok", "answer", "commit", "edit"},
       corr \in {<<>>} \cup ({e.title : e \in sess.events} \X AiDays),
       new \in SUBSET AiNewEvents :
        /\ AdminUpdate(o, {"ok", "answer", "commit", "edit"}, {"answer", "edit"})
        /\ IF o = "answer" THEN UNCHANGED <<db, sess>>
           ELSE ai_sync_calendar(corr, new, o # "commit")
        /\ UNCHANGED <<config, awaiting, menu>>

\* callback calendar_add: the next message of the user is taken as an event
AdminCalendarAddPrompt ==
    /\ \E o \in {"ok", "answer", "send"} :
        /\ AdminHandle(o, {"ok", "answer", "send"}, {"answer", "send"})
        /\ awaiting[sender'] = "none"
        /\ awaiting' = IF o = "answer" THEN awaiting
                       ELSE [awaiting EXCEPT ![sender'] = "calendar_add"]
    /\ UNCHANGED <<config, db, sess, menu, opsLeft>>

CalendarInputs == {[day |-> 2, title |-> "Meetup", category |-> "conference"]}

\* process_calendar_add: "YYYY-MM-DD|title|category" becomes a CryptoEvent at
\* 00:00:00 of the date; a failing commit is answered and rolled back
AdminCalendarAddInput ==
    /\ \E inp \in CalendarInputs, o \in {"ok", "commit"} :
        /\ AdminUpdate(o, {"ok", "commit"}, {})
        /\ awaiting[sender'] = "calendar_add"
        /\ CommitOrRollback([sess EXCEPT !.events = @ \cup
                {NewEvent(NextId(@), inp.title, ParseDate(inp.day), inp.category, "manual")}],
                o = "ok")
    /\ awaiting' = [awaiting EXCEPT ![sender'] = "none"]
    /\ UNCHANGED <<config, menu>>

AdminLoop == AdminPoll \/ AdminExcept \/ AdminToggleCalendar \/ AdminToggleFormat
             \/ AdminToggleSource \/ AdminDeleteSource \/ AdminGroupSelectTopic
             \/ AdminGroupRemoveTopic \/ AdminScheduleAdd \/ AdminScheduleToggle
             \/ AdminScheduleDelete \/ AdminCalendarRefresh \/ AdminCalendarAiSync
             \/ AdminCalendarAddPrompt \/ AdminCalendarAddInput

Next == AlertLoop \/ NewsLoop \/ AdminLoop

Spec == Init /\ [][Next]_vars

(***************************************************************************)
(* The loops after the modelled clock has ended: the alert loop keeps       *)
(* checking every hour, with nothing new in its time windows.              *)
(***************************************************************************)
\* time.sleep(3600) once the modelled clock has ended: the loop goes on, the
\* clock is no longer followed
AlertSleepLate ==
    /\ pc.alert = "sleep"
    /\ checksLeft = 0
    /\ Restart("alert", FALSE, AlertCheckSleep)
    /\ UNCHANGED <<now, db, sess, config, alertLocal, alerted, alertedTwice, alertOut, posted,
                   postedTwice, lastPost, newsLocal, awaiting, sender, menu, article, failsLeft, opsLeft, checksLeft>>

\* the table of the source holds an article an earlier run posted
SeenBefore == {<<"coindesk", safe_id_policy(LinkC)>>}

LoopTables == [Tables(InitialEvents) EXCEPT !.seen = SeenBefore]

LoopInit == \E t \in StartTimes : InitWith(t, LoopTables, 0, MaxLoopFailures, MaxLoopOps)

AlertLoopLate == AlertStart \/ AlertBegin \/ AlertDay1 \/ AlertHour1 \/ AlertCommit
                 \/ AlertSleepLate \/ AlertExcept

\* the admin loop with the polling, a handler that only calls the API, and the
\* handler that saves the configuration and changes the size of the dict the news
\* loop iterates; every handler raises into the same except clause of run()
AdminLoopKinds == AdminPoll \/ AdminExcept \/ AdminCalendarAddPrompt \/ AdminDeleteSource

LoopNext == AlertLoopLate \/ NewsLoop \/ AdminLoopKinds

\* the three loops are threads of one process: each keeps being scheduled
LoopSpec == /\ LoopInit /\ [][LoopNext]_vars
            /\ WF_vars(AlertLoopLate) /\ WF_vars(NewsLoop) /\ WF_vars(AdminLoopKinds)

RetryInit == \E t \in StartTimes : InitWith(t, LoopTables, 0, MaxRetryFailures, MaxLoopOps)

RetrySpec == RetryInit /\ [][LoopNext]_vars

(***************************************************************************)
(* The news loop and the admin loop alone.                                 *)
(***************************************************************************)
NewsInit ==
    \E t \in StartTimes : InitWith(t, Tables(InitialEvents), 0, MaxFailures, MaxAdminOps)

NewsNext == NewsLoop \/ AdminLoop

NewsSpec == NewsInit /\ [][NewsNext]_vars

(***************************************************************************)
(* The alert loop alone through the day before the predefined event, with  *)
(* no failing call: the process starts at 00:00:00 or 00:00:30 of day 0.   *)
(***************************************************************************)
DayStartTimes == {0, 30}

DayInit == \E t \in DayStartTimes : InitWith(t, Tables(InitialEvents), MaxDayChecks, 0, 0)

DayNext == AlertStart \/ AlertBegin \/ AlertDay1 \/ AlertHour1 \/ AlertCommit \/ AlertSleep

DaySpec == DayInit /\ [][DayNext]_vars

(***************************************************************************)
(* The alert loop alone through the two hours before the predefined event, *)
(* with no failing call and checks that take time: the next check begins   *)
(* 3600 s after the end of the one before.                                 *)
(***************************************************************************)
\* the seconds a check takes, from its utcnow() to the time.sleep(3600)
CheckDurations == {1, 2}

\* time.sleep(3600) after a check that took d seconds, then the next iteration
AlertSleepTimed ==
    /\ pc.alert = "sleep"
    /\ checksLeft > 0
    /\ checksLeft' = checksLeft - 1
    /\ \E d \in CheckDurations : now' = now + d + AlertCheckSleep
    /\ lastPost' = NoPost
    /\ Restart("alert", FALSE, AlertCheckSleep)
    /\ UNCHANGED <<db, sess, config, alertLocal, alerted, alertedTwice, alertOut, posted,
                   postedTwice, newsLocal, awaiting, sender, menu, article, failsLeft, opsLeft>>

\* the process starts at 21:59:58, 21:59:59 or 22:00:00 of day 0
HourStartTimes == {22 * HourSecs - s : s \in 0..2}

HourInit == \E t \in HourStartTimes : InitWith(t, Tables(InitialEvents), MaxHourChecks, 0, 0)

HourNext == AlertStart \/ AlertBegin \/ AlertDay1 \/ AlertHour1 \/ AlertCommit
            \/ AlertSleepTimed

HourSpec == HourInit /\ [][HourNext]_vars

(***************************************************************************)
(* The alert loop and the admin's calendar switches.                       *)
(***************************************************************************)
CalInit ==
    \E t \in StartTimes : InitWith(t, Tables(InitialEvents), MaxChecks, MaxFailures, MaxAdminOps)

CalNext == AlertLoop \/ AdminPoll \/ AdminExcept \/ AdminToggleCalendar

CalSpec == CalInit /\ [][CalNext]_vars

\* the admin loop alone, with the admin and another user sending updates
PanelInit ==
    \E t \in StartTimes :
        InitFor({ADMIN_ID, Stranger}, DEFAULT_CONFIG, t, Tables(InitialEvents), 0,
                MaxFailures, MaxAdminOps)

PanelSpec == PanelInit /\ [][AdminLoop]_vars

\* the admin loop handling the groups menu, next to the alert loop and its send list
GroupInit ==
    \E t \in StartTimes :
        InitFor({ADMIN_ID}, DEFAULT_CONFIG, t, Tables(InitialEvents), MaxChecks,
                MaxFailures, MaxAdminOps)

GroupNext ==
    \/ AdminPoll
    \/ AdminExcept
    \/ AdminGroupSelectTopic
    \/ AdminGroupRemoveTopic
    \/ AdminGroupToggle
    \/ AdminGroupDelete
    \/ AdminGroupAddPrompt
    \/ AdminGroupAddInput
    \/ AlertLoop

GroupSpec == GroupInit /\ [][GroupNext]_vars

\* the admin loop handling the keyboards of the schedule menu
EditInit ==
    \E t \in StartTimes :
        InitFor({ADMIN_ID}, DEFAULT_CONFIG, t, Tables(InitialEvents), 0, MaxFailures,
                MaxAdminOps)

EditNext ==
    \/ AdminPoll
    \/ AdminExcept
    \/ AdminScheduleEdit
    \/ AdminScheduleHours
    \/ AdminScheduleHour
    \/ AdminScheduleTheme
    \/ AdminScheduleQty

EditSpec == EditInit /\ [][EditNext]_vars

\* the formats the admin panel can store: every switch and every style
Formats ==
    [translate : BOOLEAN, summarize : BOOLEAN, filter_relevance : BOOLEAN,
     add_emoji : BOOLEAN, min_relevance_score : {DEFAULT_CONFIG.format.min_relevance_score},
     style : {"complete", "summary", "title_only"}]

\* the news loop alone, article by article, started with any stored format
PipeInit ==
    \E t \in StartTimes, fmt \in Formats :
        InitFor({ADMIN_ID}, [DEFAULT_CONFIG EXCEPT !.format = fmt], t,
                Tables(InitialEvents), 0, MaxFailures, 0)

PipeNext == NewsBegin \/ NewsIter \/ NewsProcess \/ NewsPost

PipeSpec == PipeInit /\ [][PipeNext]_vars

\* the news loop alone with the default configuration, the sites publishing any
\* of the modelled links
IdNext == NewsBegin \/ NewsIter \/ NewsProcessAny \/ NewsPost

IdSpec == NewsInit /\ [][IdNext]_vars

C2_AlertAtMostOnce == alertedTwice = {}

\* a flag that is set stays set (events paired by id)
FlagsKept(old, new) ==
    \A e \in old, e2 \in new :
        e.id = e2.id => /\ e.alert_1day_sent => e2.alert_1day_sent
                        /\ e.alert_1hour_sent => e2.alert_1hour_sent

\* C3: once a flag alert_1day_sent or alert_1hour_sent of a stored event is true,
\* it is true in every later state: no step brings it back to false
C3_FlagsNeverReset == [][FlagsKept(sess.events, sess'.events)]_vars

\* C4: an alert is sent by exactly one sendMessage per destination of
\* get_send_list, in order, each addressed to the chat id of its destination
C4_AlertFanOut ==
    /\ Len(alertOut.reqs) = Len(alertOut.list)
    /\ \A i \in 1..Len(alertOut.reqs) :
        alertOut.reqs[i].chat_id = PyStr(alertOut.list[i].chat_id)

\* C5: an alert or a news post to a destination carries message_thread_id equal to
\* the topic_id of the destination (None when it has no topic)
C5_TopicRouting ==
    /\ \A i \in 1..Len(alertOut.reqs) :
        alertOut.reqs[i].message_thread_id = alertOut.list[i].topic_id
    /\ lastPost.made =>
        \A i \in 1..Len(lastPost.send_list), j \in 1..Len(lastPost.dests) :
            lastPost.dests[j].chat_id = lastPost.send_list[i] =>
                NewsPostmanSend(lastPost.send_list)[i].message_thread_id
                    = lastPost.dests[j].topic_id

\* C6: a post of theme T is made only at the hour:minute of an enabled
\* ScheduledPost of theme T, and a slot gets at most max_posts posts
C6_OnSchedule ==
    lastPost.made => \E s \in lastPost.slots : lastPost.inSlot <= s.max_posts

\* C9: a step of the admin loop or of the news loop (one that is not a step of the
\* alert loop) discards no alert flag and no seen record of the shared session
C9_NoCrossDiscard ==
    [][pc'.alert = pc.alert =>
        /\ FlagsKept(sess.events, sess'.events)
        /\ sess.seen \subseteq sess'.seen]_vars

\* C7: no loop stops when an external call fails: from every state in which a
\* call of the iteration has failed, or the except clause of the loop has been
\* entered, the loop reaches the start of its next iteration
C7_LoopsGoOn ==
    \A l \in Loops : (failed[l] \/ pc[l] = "except") ~> (pc[l] = "top" /\ ~failed[l])

\* the alert loop has been through its except clause and is at the start of the
\* next iteration
C7_Witness == fails.alert = 1 /\ pc.alert = "top" /\ ~failed.alert

\* the delay the claim states for the except clause of each loop
StatedDelay(l) == CASE l = "admin" -> 5 [] l = "news" -> 60 [] l = "alert" -> 300

\* C8: after a failed iteration, however many failed in a row before it, the loop
\* has slept its fixed delay (5 s admin, 60 s news, 300 s alert), and a loop in its
\* except clause can always go on to the next iteration
C8_FixedDelay ==
    \A l \in Loops : /\ fails[l] > 0 => slept[l] = StatedDelay(l)
                      /\ pc[l] \in {"start", "top", "day1", "hour1", "commit", "sleep",
                                    "iter", "fetch", "except"}

\* a second failed iteration in a row was followed by the same delay
C8_Witness == \E l \in Loops : fails[l] = 2 /\ slept[l] = StatedDelay(l) /\ pc[l] = "top"

\* C10: with the alerts enabled and a check every hour, once day D has begun every
\* stored event dated on day D whose category is not filtered has had its '1day'
\* alert, sent by a check of day D-1
C10_AlertDayBefore ==
    \A e \in sess.events :
        (DayOf(now) >= DayOf(e.date_event) /\ CategoryAllowed(config.calendar, e))
            => <<e.id, "1day">> \in alerted

\* C11: with the alerts enabled, once a check begins after the time T of an event
\* that was stored two hours before T, the event has had its '1hour' alert, sent
\* by a check of the hour before T
C11_AlertHourBefore ==
    \A e \in sess.events : now > e.date_event => <<e.id, "1hour">> \in alerted

\* the alerts of a type that a step sends
SentInStep(type) == {a \in alerted' \ alerted : a[2] = type}

FilteredOut == {e \in sess.events : ~CategoryAllowed(config.calendar, e)}

\* C13: while the filter of a category is off, no alert of either type is sent
\* for an event of that category and none of its alert flags is set
C13_CategoryFilterBothTypes ==
    [][\A e \in FilteredOut :
          /\ <<e.id, "1day">> \notin alerted' \ alerted
          /\ <<e.id, "1hour">> \notin alerted' \ alerted
          /\ \A f \in sess'.events : f.id = e.id =>
                /\ f.alert_1day_sent => e.alert_1day_sent
                /\ f.alert_1hour_sent => e.alert_1hour_sent]_vars

\* handle_update handles in this step an update sent by user u
HandledFrom(u) ==
    /\ pc.admin = "top"
    /\ sender' = u
    /\ opsLeft' = opsLeft - 1 \/ awaiting' # awaiting

\* C14: an update whose sender is not ADMIN_ID changes nothing: the configuration,
\* the stored rows (sources, groups, schedules, events) and the pending inputs
\* stay as they were
C14_OnlyAdminChangesState ==
    [][\A u \in DOMAIN awaiting :
          (u # ADMIN_ID /\ HandledFrom(u)) => UNCHANGED <<config, db, sess, awaiting>>]_vars

\* the sources a cycle may fetch: those in the configuration with their switch on
ActiveSources ==
    {config.sources_enabled[i].key :
        i \in {j \in 1..Len(config.sources_enabled) : config.sources_enabled[j].enabled}}

\* C15: a cycle takes a source for fetching only while the source is in the
\* configuration with its switch on, and what it then fetches and posts is that
\* source; so a source disabled or removed before the cycle began is not fetched
C15_OnlyActiveFetched ==
    [][/\ (pc.news = "iter" /\ pc'.news = "fetch") => newsLocal'.key \in ActiveSources
       /\ (pc.news # "iter" /\ pc'.news = "fetch") => pc.news = "fetch"
       /\ \A p \in posted' \ posted : pc.news = "fetch" /\ p[1] = newsLocal.key]_vars

\* the cycle has passed over the disabled source without fetching it
C15_Witness ==
    /\ pc.news = "iter"
    /\ newsLocal.used = 1 /\ Len(config.sources_enabled) = 1
    /\ ~config.sources_enabled[1].enabled
    /\ newsLocal.i = 2
    /\ newsLocal.last = ""

\* C16: an article is posted only when its theme is enabled in the 'themes'
\* configuration; an article of a disabled theme is not posted
C16_OnlyEnabledThemesPosted ==
    [][(pc.news = "post" /\ pc'.news = "iter" /\ article.theme \in DOMAIN config.themes)
            => config.themes[article.theme]]_vars

\* process_data returns in this step from an article that is new
Processed == pc.news = "fetch" /\ pc'.news # "fetch" /\ article'.returned # ""

C18_StyleBoundsContent ==
    article.returned = "data" =>
        /\ config.format.style = "summary" => Len(article.paragraphs) <= StyleSummaryLength
        /\ config.format.style = "title_only" => article.paragraphs = <<>>

\* the PostAnalytics row and the post are of the same article of the same source
RowOfPost(row, post) == row[1] = SourceName(post[1]) /\ safe_id_policy(row[2]) = post[2]

\* C19: a PostAnalytics row is stored for an article exactly when the article
\* was sent: every row has its post and every post has its row
C19_AnalyticsIffSent ==
    /\ \A row \in db.analytics : \E post \in posted : RowOfPost(row, post)
    /\ \A post \in posted : \E row \in db.analytics : RowOfPost(row, post)

\* the elements of a sequence
Range(q) == {q[i] : i \in 1..Len(q)}

\* the flow of the documentation
DocumentedOrder ==
    <<"dedup", "translate", "relevance", "classify", "summarize", "emoji", "send", "metrics">>

Rank(step) == CHOOSE i \in 1..Len(DocumentedOrder) : DocumentedOrder[i] = step

\* C20: the steps taken for an article follow the documented order
C20_DocumentedOrder ==
    \A i, j \in 1..Len(article.steps) :
        (/\ i < j
         /\ article.steps[i] \in Range(DocumentedOrder)
         /\ article.steps[j] \in Range(DocumentedOrder))
            => Rank(article.steps[i]) < Rank(article.steps[j])

\* C21: a toggle_group_<id> callback handled without a failing external call
\* negates the enabled flag of that group alone and persists it, and a
\* delete_group_<id> callback handled so removes the group
C21_GroupToggledAndDeleted ==
    [][\A g \in sess.groups :
          /\ (toggle_group(g.id) /\ failsLeft' = failsLeft) =>
                /\ sess'.groups = GroupsAfterToggle(sess.groups, g.id)
                /\ db'.groups = sess'.groups
          /\ (delete_group(g.id) /\ failsLeft' = failsLeft) =>
                /\ ~\E h \in sess'.groups : h.id = g.id
                /\ db'.groups = sess'.groups]_vars

\* the chat is in the list of destinations
InSendList(groups, chat_id) ==
    \E i \in 1..Len(get_send_list(groups, TRUE)) : get_send_list(groups, TRUE)[i].chat_id = chat_id

\* C22: no two groups have the same chat_id; an add-group input handled without
\* a failing external call leaves the table unchanged when it names a registered
\* chat or is neither a number nor an @username, and when it names a new chat
\* adds exactly one enabled group, persisted and in the send list
C22_AddGroup ==
    [][/\ \A g, h \in sess'.groups : g.chat_id = h.chat_id => g = h
       /\ \A inp \in GroupInputs :
            (process_add_group(inp) /\ failsLeft' = failsLeft) =>
                IF inp.kind = "other" \/ \E g \in sess.groups : g.chat_id = inp.text
                THEN sess'.groups = sess.groups
                ELSE /\ Cardinality(sess'.groups) = Cardinality(sess.groups) + 1
                     /\ \E g \in sess'.groups \ sess.groups :
                            g.chat_id = inp.text /\ g.enabled
                     /\ db'.groups = sess'.groups
                     /\ InSendList(sess'.groups, inp.text)]_vars

\* the quantity keyboards the theme buttons of an edit lead to
EditQuantityMenus(id) ==
    {build_schedule_quantity_menu(<<"edit", Str(id)>>, Split(b.arg)[Len(Split(b.arg))]) :
        b \in build_schedule_theme_menu(<<"edit", "_", Str(id)>>)}

\* C23: in the edit flow of a schedule, a theme button pressed on the keyboard
\* edit_schedule_<id> rendered leads, when no external call fails, to the
\* quantity keyboard of that schedule and theme, and a quantity button pressed
\* there leaves the rows as they were but for the theme and max_posts of that
\* schedule
C23_EditFlow ==
    [][\A sched \in sess.schedules :
        /\ (/\ menu = build_schedule_theme_menu(<<"edit", "_", Str(sched.id)>>)
            /\ AdminScheduleTheme
            /\ failsLeft' = failsLeft)
                => (pc'.admin = "top" /\ menu' \in EditQuantityMenus(sched.id))
        /\ (/\ menu \in EditQuantityMenus(sched.id)
            /\ AdminScheduleQty
            /\ failsLeft' = failsLeft)
                => \E b \in menu :
                      /\ sess'.schedules = SchedulesAfterEdit(sess.schedules, sched.id,
                                              Split(b.arg)[2][1], IntOf(Split(b.arg)[3]))
                      /\ db'.schedules = sess'.schedules]_vars

\* C24: safe_id_policy gives every link an id of its own: the id computed for
\* the item at hand differs from the id of every other link the bot has
\* processed, is the id of that link whenever the link comes again, and is the
\* id run_bot.safe_id_policy computes for it
C24_UniqueIdFromLink ==
    newsLocal.lastId # <<>> =>
        /\ \A row \in db.analytics :
              (row[2] = article.link) <=> (safe_id_policy(row[2]) = newsLocal.lastId)
        /\ safe_id_policy(article.link) = newsLocal.lastId
        /\ run_bot_safe_id_policy(article.link) = newsLocal.lastId

====
